---- MODULE Spec2Model ----
(***************************************************************************)
(* Chess Vision: the scan cycle of ChessVision (main.py) with the          *)
(* position notation of piece_recognizer.py, the engine adapter of         *)
(* engine.py and the highlight store of overlay.py.                        *)
(*                                                                         *)
(* Text is modelled as a sequence of one-character strings, an 8x8 layout  *)
(* as a sequence of 8 rows of 8 cells, a cell being a piece letter or None.*)
(***************************************************************************)
EXTENDS Integers, Sequences, FiniteSets, TLC

None == "None"        \* an absent cell, colour or turn

NoFen == <<"None">>   \* an absent text (position, query)

NoBoard == [x |-> 0, y |-> 0, size |-> 0]    \* detect_board found nothing

NoMove == [move |-> <<>>, query |-> NoFen]   \* the engine gave no move

\* ------------------------------------------------------------------------
\* Bounds of the model (not program constants)
\* ------------------------------------------------------------------------
NumLayouts == 7     \* how many of the layouts of LayoutSeq a frame may show
NumBoards == 1      \* how many of the geometries of BoardSeq a frame may show
MaxMoves == 7       \* select_move calls that record a move, per session
EvalSpan == 450     \* evaluations given to _compute_pressure: -EvalSpan..EvalSpan
MaxHistory == 7     \* recorded best evaluations given to _compute_trend_urgency
MaxStreak == 10     \* consecutive-best streaks given to _compute_temperature
MaxBoxes == 3       \* contours given to detect_board in one frame

\* ------------------------------------------------------------------------
\* Program constants
\* ------------------------------------------------------------------------
STABLE_SCANS_one == 2 - 1

STABLE_SCANS == 2
MAX_CHANGED == 6
MIN_PIECES == 4

\* ------------------------------------------------------------------------
\* Characters
\* ------------------------------------------------------------------------
WhitePieces == {"K", "Q", "R", "B", "N", "P"}
BlackPieces == {"k", "q", "r", "b", "n", "p"}

IsUpper(ch) == ch \in WhitePieces

DigitChars == <<"0", "1", "2", "3", "4", "5", "6", "7", "8", "9">>

IsDigit(ch) == \E i \in 1..10 : DigitChars[i] = ch

IntOfChar(ch) == (CHOOSE i \in 1..10 : DigitChars[i] = ch) - 1

StrOfInt(n) == DigitChars[n + 1]

FileChars == <<"a", "b", "c", "d", "e", "f", "g", "h">>

OrdMinusA(ch) == (CHOOSE i \in 1..8 : FileChars[i] = ch) - 1

\* ------------------------------------------------------------------------
\* Sequence helpers (Python list/str primitives)
\* ------------------------------------------------------------------------
Reverse(s) == [i \in 1..Len(s) |-> s[Len(s) + 1 - i]]

Repeat(x, n) == [i \in 1..n |-> x]

RECURSIVE SplitFrom(_, _, _, _)
SplitFrom(s, sep, i, cur) ==
    IF i > Len(s) THEN <<cur>>
    ELSE IF s[i] = sep THEN <<cur>> \o SplitFrom(s, sep, i + 1, <<>>)
    ELSE SplitFrom(s, sep, i + 1, Append(cur, s[i]))

Split(s, sep) == SplitFrom(s, sep, 1, <<>>)

RECURSIVE JoinFrom(_, _, _)
JoinFrom(rows, sep, i) ==
    IF i > Len(rows) THEN <<>>
    ELSE IF i = Len(rows) THEN rows[i]
    ELSE rows[i] \o <<sep>> \o JoinFrom(rows, sep, i + 1)

Join(rows, sep) == JoinFrom(rows, sep, 1)

\* ------------------------------------------------------------------------
\* piece_recognizer.py: canonical notation
\* ------------------------------------------------------------------------
RECURSIVE FenRowFrom(_, _, _)
FenRowFrom(row, i, empty) ==
    IF i > Len(row)
    THEN (IF empty > 0 THEN <<StrOfInt(empty)>> ELSE <<>>)
    ELSE IF row[i] = None
         THEN FenRowFrom(row, i + 1, empty + 1)
         ELSE (IF empty > 0 THEN <<StrOfInt(empty)>> ELSE <<>>)
              \o <<row[i]>> \o FenRowFrom(row, i + 1, 0)

board_to_fen(positions) ==
    Join([r \in 1..Len(positions) |-> FenRowFrom(positions[r], 1, 0)], "/")

CountWhite(positions, rows) ==
    Cardinality({rc \in rows \X (1..8) :
                    /\ positions[rc[1]][rc[2]] # None
                    /\ IsUpper(positions[rc[1]][rc[2]])})

detect_orientation(positions) ==
    CountWhite(positions, {7, 8}) >= CountWhite(positions, {1, 2})

FenSuffix(turn) ==
    <<" ", turn, " ", "K", "Q", "k", "q", " ", "-", " ", "0", " ", "1">>

positions_to_fen_noflip(positions, turn) ==
    board_to_fen(positions) \o FenSuffix(turn)

positions_to_fen_rowsonly(positions, turn) ==
    LET white_bottom == detect_orientation(positions)
        piece_placement == board_to_fen(positions)
        rows == Split(piece_placement, "/")
        flipped == Join(Reverse(rows), "/")
    IN  (IF white_bottom THEN piece_placement ELSE flipped) \o FenSuffix(turn)

positions_to_fen(positions, turn) ==
    LET white_bottom == detect_orientation(positions)
        piece_placement == board_to_fen(positions)
        rows == Split(piece_placement, "/")
        flipped == Join([i \in 1..Len(rows) |-> Reverse(Reverse(rows)[i])], "/")
    IN  (IF white_bottom THEN piece_placement ELSE flipped) \o FenSuffix(turn)

piece_count(positions) ==
    Cardinality({rc \in (1..8) \X (1..8) : positions[rc[1]][rc[2]] # None})

\* ------------------------------------------------------------------------
\* main.py: _infer_current_turn
\* ------------------------------------------------------------------------
RECURSIVE ExpandFrom(_, _)
ExpandFrom(row_str, i) ==
    IF i > Len(row_str) THEN <<>>
    ELSE (IF IsDigit(row_str[i])
          THEN Repeat(None, IntOfChar(row_str[i]))
          ELSE <<row_str[i]>>) \o ExpandFrom(row_str, i + 1)

expand(row_str) == SubSeq(ExpandFrom(row_str, 1) \o Repeat(None, 8), 1, 8)

Cells == (1..8) \X (1..8)

ChangedCells(old_rows, new_rows) ==
    {rc \in Cells : expand(old_rows[rc[1]])[rc[2]] # expand(new_rows[rc[1]])[rc[2]]}

WhiteArrived(old_rows, new_rows) ==
    Cardinality({rc \in ChangedCells(old_rows, new_rows) :
                    /\ expand(new_rows[rc[1]])[rc[2]] # None
                    /\ IsUpper(expand(new_rows[rc[1]])[rc[2]])})

BlackArrived(old_rows, new_rows) ==
    Cardinality({rc \in ChangedCells(old_rows, new_rows) :
                    /\ expand(new_rows[rc[1]])[rc[2]] # None
                    /\ ~IsUpper(expand(new_rows[rc[1]])[rc[2]])})

infer_current_turn_swapped(old_fen_pos, new_fen_pos) ==
    LET old_rows == Split(old_fen_pos, "/")
        new_rows == Split(new_fen_pos, "/")
    IN  IF Len(old_rows) # 8 \/ Len(new_rows) # 8 THEN None
        ELSE IF Cardinality(ChangedCells(old_rows, new_rows)) > MAX_CHANGED THEN None
        ELSE IF WhiteArrived(old_rows, new_rows) > BlackArrived(old_rows, new_rows) THEN "w"
        ELSE IF BlackArrived(old_rows, new_rows) > WhiteArrived(old_rows, new_rows) THEN "b"
        ELSE None

infer_current_turn(old_fen_pos, new_fen_pos) ==
    LET old_rows == Split(old_fen_pos, "/")
        new_rows == Split(new_fen_pos, "/")
    IN  IF Len(old_rows) # 8 \/ Len(new_rows) # 8 THEN None
        ELSE IF Cardinality(ChangedCells(old_rows, new_rows)) > MAX_CHANGED THEN None
        ELSE IF WhiteArrived(old_rows, new_rows) > BlackArrived(old_rows, new_rows) THEN "b"
        ELSE IF BlackArrived(old_rows, new_rows) > WhiteArrived(old_rows, new_rows) THEN "w"
        ELSE None

\* ------------------------------------------------------------------------
\* Frames: the layouts a frame may show
\* ------------------------------------------------------------------------
EmptyRow == Repeat(None, 8)

StartLayout ==
    << <<"r", "n", "b", "q", "k", "b", "n", "r">>,
       Repeat("p", 8), EmptyRow, EmptyRow, EmptyRow, EmptyRow,
       Repeat("P", 8),
       <<"R", "N", "B", "Q", "K", "B", "N", "R">> >>

Put(layout, r, c, p) == [layout EXCEPT ![r][c] = p]

MovePiece(layout, r1, c1, r2, c2) ==
    Put(Put(layout, r2, c2, layout[r1][c1]), r1, c1, None)

Rot180(layout) == [r \in 1..8 |-> Reverse(layout[9 - r])]

E4Layout == MovePiece(StartLayout, 7, 5, 5, 5)

E4E5Layout == MovePiece(E4Layout, 2, 5, 4, 5)

VanishLayout == Put(StartLayout, 8, 8, None)

NoiseLayout == [StartLayout EXCEPT ![4] = Repeat("p", 8)]

FewLayout ==
    Put(Put(Put([r \in 1..8 |-> EmptyRow], 1, 5, "k"), 8, 5, "K"), 7, 1, "P")

LayoutSeq ==
    << StartLayout, E4Layout, E4E5Layout, VanishLayout, NoiseLayout,
       FewLayout, Rot180(E4Layout), Rot180(StartLayout) >>

Layouts == {LayoutSeq[i] : i \in 1..NumLayouts}

\* positions_to_fen(positions, "w").split(" ")[0] of every layout, and
\* _infer_current_turn of every pair of placements, evaluated once
FenTable ==
    {<<l, Split(positions_to_fen(l, "w"), " ")[1]>> : l \in Layouts}

FenPositionOf(positions) == (CHOOSE p \in FenTable : p[1] = positions)[2]

FenPositions == {p[2] : p \in FenTable}

InferTable ==
    {<<a, b, infer_current_turn(a, b)>> : a \in FenPositions, b \in FenPositions}

InferOf(old_fen_pos, new_fen_pos) ==
    (CHOOSE p \in InferTable : p[1] = old_fen_pos /\ p[2] = new_fen_pos)[3]

\* ------------------------------------------------------------------------
\* Frames: the board geometries detect_board may return, and the screen
\* ------------------------------------------------------------------------
BoardSeq ==
    << [x |-> 40, y |-> 20, size |-> 260],
       [x |-> 150, y |-> 50, size |-> 256] >>

Boards == {BoardSeq[i] : i \in 1..NumBoards}

Screen == [w |-> 400, h |-> 300]

\* ------------------------------------------------------------------------
\* engine.py
\* ------------------------------------------------------------------------
Raise == "Raise"

Moves == { <<"e", "2", "e", "4">>, <<"g", "8", "f", "6">> }

\* what the Stockfish process does with a query: a move, no move, or a failure
EngineReplies ==
    [kind : {"move"}, move : Moves] \cup [kind : {"none", Raise}, move : {<<>>}]

get_best_move(fen, reply) ==
    IF reply.kind = Raise \/ reply.kind = "none"
    THEN NoMove
    ELSE [move |-> reply.move, query |-> fen]

parse_move(uci_move) ==
    [from_row |-> 8 - IntOfChar(uci_move[2]), from_col |-> OrdMinusA(uci_move[1]),
     to_row |-> 8 - IntOfChar(uci_move[4]), to_col |-> OrdMinusA(uci_move[3])]

\* int(v) of the rational n/d, d > 0: truncation toward zero
IntOfRatio(n, d) == IF n >= 0 THEN n \div d ELSE 0 - ((0 - n) \div d)

SquareRect(board, row, col) ==
    [x |-> IntOfRatio(8 * board.x + col * board.size, 8),
     y |-> IntOfRatio(8 * board.y + row * board.size, 8),
     w |-> IntOfRatio(board.size, 8),
     h |-> IntOfRatio(board.size, 8)]

move_to_screen_coords_noflip(uci_move, board, white_on_bottom) ==
    LET m == parse_move(uci_move)
    IN  << SquareRect(board, m.from_row, m.from_col),
           SquareRect(board, m.to_row, m.to_col) >>

move_to_screen_coords(uci_move, board, white_on_bottom) ==
    LET m == parse_move(uci_move)
        fr == IF white_on_bottom THEN m.from_row ELSE 7 - m.from_row
        fc == IF white_on_bottom THEN m.from_col ELSE 7 - m.from_col
        tr == IF white_on_bottom THEN m.to_row ELSE 7 - m.to_row
        tc == IF white_on_bottom THEN m.to_col ELSE 7 - m.to_col
    IN  << SquareRect(board, fr, fc), SquareRect(board, tr, tc) >>

\* ------------------------------------------------------------------------
\* overlay.py
\* ------------------------------------------------------------------------
Max(a, b) == IF a >= b THEN a ELSE b

Min(a, b) == IF a <= b THEN a ELSE b

ClampRect(r) ==
    [x |-> Max(0, r.x), y |-> Max(0, r.y),
     w |-> Min(r.w, Screen.w - Max(0, r.x)),
     h |-> Min(r.h, Screen.h - Max(0, r.y))]

set_highlights(rects) == [i \in 1..Len(rects) |-> ClampRect(rects[i])]

set_status(text, duration_ms) == [text |-> text, timed |-> duration_ms > 0]

\* ------------------------------------------------------------------------
\* main.py: state of ChessVision (with the overlay and the menu it owns)
\* ------------------------------------------------------------------------
VARIABLES
    last_fen_position,  \* acceptedPosition: a piece placement or NoFen
    last_move,          \* last engine result applied, or NoMove
    player_color,       \* None, "w" or "b"
    current_turn,       \* acceptedTurn
    running,
    has_templates,
    scan_timer,         \* TRUE once the periodic scan timer is started
    pending_fen,        \* pendingPosition
    pending_count,      \* pendingCount
    highlights,         \* overlay.highlights, with the query they come from
    status,             \* overlay status banner
    menu_visible,       \* the colour menu is on screen
    last_classified,    \* history: the latest position recognize_board produced
    tick,               \* history: what the latest operation did
    sel,                \* the HumanMoveSelector (move_selector.py)
    probe               \* a pure function under examination: inputs, result

vars == << last_fen_position, last_move, player_color, current_turn, running,
           has_templates, scan_timer, pending_fen, pending_count, highlights,
           status, menu_visible, last_classified, tick, sel, probe >>

\* the variables of ChessVision, and the others
vision == << last_fen_position, last_move, player_color, current_turn, running,
             has_templates, scan_timer, pending_fen, pending_count, highlights,
             status, menu_visible, last_classified, tick >>

others == << sel, probe >>

Turns == {"w", "b"}

Self ==
    [last_fen_position |-> last_fen_position, last_move |-> last_move,
     player_color |-> player_color, current_turn |-> current_turn,
     running |-> running, has_templates |-> has_templates,
     pending_fen |-> pending_fen, pending_count |-> pending_count,
     highlights |-> highlights, status |-> status,
     last_classified |-> last_classified, tick |-> tick]

NoOracle == [t \in Turns |-> FALSE]

\* outcome: the operation or the branch scan returned from; obs: the position
\* the tick classified; accepted: the tick accepted obs; was, turn_was:
\* acceptedPosition and acceptedTurn before an accepting tick; oracle: "asked"
\* with the answers of is_valid() in valid and those of _is_valid_for_turn
\* in for_turn when the tick consulted the rules oracle;
\* engine: "unused", or what the engine did with the tick's query
Tick(outcome, obs, accepted) ==
    [outcome |-> outcome, obs |-> obs, accepted |-> accepted,
     was |-> NoFen, turn_was |-> None, oracle |-> "unused", valid |-> NoOracle,
     for_turn |-> NoOracle, engine |-> "unused"]

OpTick(name) == Tick(name, NoFen, FALSE)

NoHighlights == [rects |-> <<>>, query |-> NoFen]

VisionInit ==
    /\ last_fen_position = NoFen
    /\ last_move = NoMove
    /\ player_color = None
    /\ current_turn = "w"
    /\ running = TRUE
    /\ has_templates \in BOOLEAN
    /\ scan_timer = FALSE
    /\ pending_fen = NoFen
    /\ pending_count = 0
    /\ highlights = NoHighlights
    /\ status = [text |-> "", timed |-> FALSE]
    /\ menu_visible = TRUE
    /\ last_classified = NoFen
    /\ tick = OpTick("init")

\* no selector is constructed and nothing is under examination
NoSel == [state |-> "none"]

NoProbe == [kind |-> "none"]

Init ==
    /\ VisionInit
    /\ sel = NoSel
    /\ probe = NoProbe

\* ------------------------------------------------------------------------
\* main.py: _on_color_selected
\* ------------------------------------------------------------------------
initial_turn_selected(color) == color

initial_turn(color) == "w"

on_color_selected(color) ==
    /\ menu_visible
    /\ player_color' = color
    /\ current_turn' = initial_turn(color)
    /\ status' = IF has_templates
                 THEN set_status("playing", 3000)
                 ELSE set_status("no_templates", 0)
    /\ scan_timer' = TRUE
    /\ menu_visible' = FALSE
    /\ tick' = OpTick("color")
    /\ UNCHANGED << last_fen_position, last_move, running, has_templates,
                    pending_fen, pending_count, highlights, last_classified >>
    /\ UNCHANGED others

\* ------------------------------------------------------------------------
\* main.py: scan, branch by branch
\* ------------------------------------------------------------------------
on_not_running(s) == [s EXCEPT !.tick = OpTick("not_running")]

on_exception(s) ==
    [s EXCEPT !.status = set_status("error", 5000), !.tick = OpTick("error")]

on_no_board_reset(s) ==
    [s EXCEPT !.highlights = NoHighlights,
              !.pending_fen = NoFen, !.pending_count = 0,
              !.status = set_status("no_board", 0),
              !.tick = OpTick("no_board")]

on_no_board_keep(s) ==
    [s EXCEPT !.status = set_status("no_board", 0),
              !.tick = OpTick("no_board")]

on_no_board(s) ==
    [s EXCEPT !.highlights = NoHighlights,
              !.status = set_status("no_board", 0),
              !.tick = OpTick("no_board")]

\* calibrated: what auto_calibrate did: "saved", "nothing" or Raise
on_calibrate(s, calibrated) ==
    IF calibrated = Raise
    THEN [on_exception(s) EXCEPT !.tick = OpTick("calibrate")]
    ELSE IF calibrated = "saved"
    THEN [s EXCEPT !.has_templates = TRUE,
                   !.status = set_status("auto_calibrated", 3000),
                   !.tick = OpTick("calibrate")]
    ELSE [s EXCEPT !.status = set_status("calibration_failed", 0),
                   !.tick = OpTick("calibrate")]

is_unchanged_never(fen_position, last) == FALSE

is_unchanged(fen_position, last) == fen_position = last

on_unchanged_restore(s, fen_position) ==
    [s EXCEPT !.pending_fen = NoFen, !.pending_count = 0,
              !.highlights =
                  IF s.last_move # NoMove
                  THEN [rects |-> set_highlights(move_to_screen_coords(
                                      s.last_move.move, BoardSeq[1], TRUE)),
                        query |-> s.last_move.query]
                  ELSE s.highlights,
              !.tick = Tick("unchanged", fen_position, FALSE)]

on_unchanged(s, fen_position) ==
    [s EXCEPT !.pending_fen = NoFen, !.pending_count = 0,
              !.tick = Tick("unchanged", fen_position, FALSE)]

debounce(s, fen_position) ==
    IF fen_position = s.pending_fen
    THEN [s EXCEPT !.pending_count = s.pending_count + 1]
    ELSE [s EXCEPT !.pending_fen = fen_position, !.pending_count = 1]

\* what python-chess finds for a position and a side to move: the board is
\* not valid (or cannot be built), valid without a legal move, or valid with one
OracleAnswers == {"invalid", "stuck", "valid"}

\* chess.Board(...).is_valid() returned True (no exception)
board_is_valid(answer) == answer # "invalid"

\* _is_valid_for_turn: b.is_valid() and bool(list(b.legal_moves))
is_valid_for_turn(answer) == answer = "valid"

\* valid[t]: board_is_valid of the position with t to move
fallback_turn(turn, valid) ==
    LET toggled == IF turn = "w" THEN "b" ELSE "w"
    IN  IF valid[toggled] THEN toggled
        ELSE IF valid[turn] THEN turn
        ELSE toggled

next_turn(s, fen_position, valid) ==
    IF s.last_fen_position # NoFen
    THEN LET inferred == InferOf(s.last_fen_position, fen_position)
         IN  IF inferred # None THEN inferred
             ELSE fallback_turn(s.current_turn, valid)
    ELSE s.current_turn

accept_keep_pending(s, fen_position, valid) ==
    [s EXCEPT !.current_turn = next_turn(s, fen_position, valid),
              !.last_fen_position = fen_position]

accept(s, fen_position, valid) ==
    [s EXCEPT !.pending_fen = NoFen, !.pending_count = 0,
              !.current_turn = next_turn(s, fen_position, valid),
              !.last_fen_position = fen_position]

is_our_turn_always(turn, color) == TRUE

is_our_turn(turn, color) == turn = color

query_engine_stale(s, fen, reply) ==
    IF get_best_move(fen, reply) = NoMove
    THEN s.last_move
    ELSE get_best_move(fen, reply)

query_engine(s, fen, reply) == get_best_move(fen, reply)

analyze(s, fen_position, in) ==
    LET fen == fen_position \o FenSuffix(s.player_color)
        best_move == query_engine(s, fen, in.reply)
    IN  IF piece_count(in.positions) < MIN_PIECES
        THEN [s EXCEPT !.status = set_status("few_pieces", 0),
                       !.highlights = NoHighlights,
                       !.tick.outcome = "few_pieces"]
        ELSE IF ~is_our_turn(s.current_turn, s.player_color)
        THEN [s EXCEPT !.status = set_status("opponent_turn", 0),
                       !.highlights = NoHighlights,
                       !.tick.outcome = "opponent_turn"]
        ELSE IF best_move = NoMove
        THEN [s EXCEPT !.status = set_status("no_legal_moves", 0),
                       !.highlights = NoHighlights,
                       !.tick.outcome = "no_move",
                       !.tick.engine = in.reply.kind]
        ELSE [s EXCEPT !.last_move = best_move,
                       !.highlights =
                           [rects |-> set_highlights(move_to_screen_coords(
                                          best_move.move, in.board,
                                          detect_orientation(in.positions))),
                            query |-> best_move.query],
                       !.status = set_status("best_move", 4000),
                       !.tick.outcome = "best_move",
                       !.tick.engine = in.reply.kind]

observe_keep_highlights(s, positions) ==
    LET fen_position == FenPositionOf(positions)
        s1 == [s EXCEPT !.last_classified = fen_position]
    IN  IF is_unchanged(fen_position, s.last_fen_position)
        THEN on_unchanged(s1, fen_position)
        ELSE LET s2 == debounce(s1, fen_position)
             IN  IF s2.pending_count < STABLE_SCANS
                 THEN [s2 EXCEPT !.tick = Tick("pending", fen_position, FALSE)]
                 ELSE [s2 EXCEPT !.tick = Tick("stable", fen_position, TRUE)]

\* scan from recognize_board up to the stability check (main.py 205-231)
observe(s, positions) ==
    LET fen_position == FenPositionOf(positions)
        s1 == [s EXCEPT !.last_classified = fen_position]
    IN  IF is_unchanged(fen_position, s.last_fen_position)
        THEN on_unchanged(s1, fen_position)
        ELSE LET s2 == debounce([s1 EXCEPT !.highlights = NoHighlights],
                                fen_position)
             IN  IF s2.pending_count < STABLE_SCANS
                 THEN [s2 EXCEPT !.tick = Tick("pending", fen_position, FALSE)]
                 ELSE [s2 EXCEPT !.tick = Tick("stable", fen_position, TRUE)]

\* scan after the stability check (main.py 233-298), o the state observe left
on_stable(s, o, in) ==
    LET asked == /\ s.last_fen_position # NoFen
                 /\ InferOf(s.last_fen_position, o.tick.obs) = None
        valid == [t \in Turns |-> board_is_valid(in.oracle[t])]
    IN  analyze([accept(o, o.tick.obs, valid) EXCEPT
                    !.tick = [o.tick EXCEPT
                                !.was = s.last_fen_position,
                                !.turn_was = s.current_turn,
                                !.oracle = IF asked THEN "asked" ELSE "unused",
                                !.valid = IF asked THEN valid ELSE NoOracle,
                                !.for_turn =
                                    IF asked
                                    THEN [t \in Turns |->
                                            is_valid_for_turn(in.oracle[t])]
                                    ELSE NoOracle]],
                o.tick.obs, in)

Apply(r) ==
    /\ last_fen_position' = r.last_fen_position
    /\ last_move' = r.last_move
    /\ player_color' = r.player_color
    /\ current_turn' = r.current_turn
    /\ running' = r.running
    /\ has_templates' = r.has_templates
    /\ pending_fen' = r.pending_fen
    /\ pending_count' = r.pending_count
    /\ highlights' = r.highlights
    /\ status' = r.status
    /\ last_classified' = r.last_classified
    /\ tick' = r.tick
    /\ UNCHANGED << scan_timer, menu_visible >>
    /\ UNCHANGED others

\* the timer fires after stop: scan returns at once
ScanNotRunning ==
    /\ scan_timer
    /\ ~running
    /\ Apply(on_not_running(Self))

\* capture_screen, detect_board or recognize_board raises
ScanFault ==
    /\ scan_timer
    /\ running
    /\ Apply(on_exception(Self))

\* detect_board finds no board
ScanNoBoard ==
    /\ scan_timer
    /\ running
    /\ Apply(on_no_board(Self))

\* a board is found and no templates are loaded
ScanCalibrate ==
    /\ scan_timer
    /\ running
    /\ ~has_templates
    /\ \E calibrated \in {"saved", "nothing", Raise} :
        Apply(on_calibrate(Self, calibrated))

\* a board is found and classified; the rules oracle and the engine are
\* consulted only when the code reaches them
ScanPosition ==
    /\ scan_timer
    /\ running
    /\ has_templates
    /\ \E board \in Boards, positions \in Layouts :
        LET o == observe(Self, positions)
        IN  IF o.tick.outcome # "stable"
            THEN Apply(o)
            ELSE \E oracle \in [Turns -> OracleAnswers], reply \in EngineReplies :
                    Apply(on_stable(Self, o,
                                    [board |-> board, positions |-> positions,
                                     oracle |-> oracle, reply |-> reply]))

Scan == ScanNotRunning \/ ScanFault \/ ScanNoBoard \/ ScanCalibrate \/ ScanPosition

\* ------------------------------------------------------------------------
\* main.py: stop;  overlay.py: _clear_status
\* ------------------------------------------------------------------------
stop ==
    /\ scan_timer
    /\ running
    /\ running' = FALSE
    /\ highlights' = NoHighlights
    /\ tick' = OpTick("stop")
    /\ UNCHANGED << last_fen_position, last_move, player_color, current_turn,
                    has_templates, scan_timer, pending_fen, pending_count,
                    status, menu_visible, last_classified >>
    /\ UNCHANGED others

clear_status ==
    /\ status.timed
    /\ status' = [text |-> "", timed |-> FALSE]
    /\ tick' = OpTick("clear_status")
    /\ UNCHANGED << last_fen_position, last_move, player_color, current_turn,
                    running, has_templates, scan_timer, pending_fen,
                    pending_count, highlights, menu_visible, last_classified >>
    /\ UNCHANGED others

Next ==
    \/ \E color \in Turns : on_color_selected(color)
    \/ ScanNotRunning
    \/ ScanFault
    \/ ScanNoBoard
    \/ ScanCalibrate
    \/ ScanPosition
    \/ stop
    \/ clear_status

Spec == Init /\ [][Next]_vars

\* ------------------------------------------------------------------------
\* Properties
\* ------------------------------------------------------------------------
\* the cell-by-cell difference of every pair of placements, evaluated once
DiffTable ==
    {<<a, b, Cardinality(ChangedCells(Split(a, "/"), Split(b, "/"))),
       WhiteArrived(Split(a, "/"), Split(b, "/")),
       BlackArrived(Split(a, "/"), Split(b, "/"))>> :
        a \in FenPositions, b \in FenPositions}

DiffOf(a, b) == CHOOSE p \in DiffTable : p[1] = a /\ p[2] = b

Changed(a, b) == DiffOf(a, b)[3]

WhiteIn(a, b) == DiffOf(a, b)[4]

BlackIn(a, b) == DiffOf(a, b)[5]

\* the latest tick accepted a position while an earlier one was accepted
AcceptedOver == tick.accepted /\ tick.was # NoFen

\* C1: acceptedPosition changes to P only in a tick that observes P while the
\* pending buffer holds P with count 1 and P is the latest position
\* classified before the tick (no different position in between); the
\* pending buffer is cleared at acceptance.
C1_DebounceAccept ==
    [][last_fen_position' # last_fen_position =>
          /\ tick'.obs = last_fen_position'
          /\ tick'.accepted
          /\ pending_fen = last_fen_position'
          /\ pending_count = 1
          /\ last_classified = last_fen_position'
          /\ pending_fen' = NoFen
          /\ pending_count' = 0]_vars

C1_Witness ==
    /\ tick.accepted
    /\ last_fen_position = tick.obs
    /\ last_fen_position # NoFen
    /\ pending_fen = NoFen
    /\ pending_count = 0

\* C2: a tick that observes the accepted position clears the pending buffer,
\* changes neither acceptedPosition nor acceptedTurn, accepts nothing and
\* consults neither the turn inference, the rules oracle nor the engine.
C2_UnchangedNoAccept ==
    [][(tick'.obs # NoFen /\ tick'.obs = last_fen_position) =>
          /\ pending_fen' = NoFen
          /\ pending_count' = 0
          /\ last_fen_position' = last_fen_position
          /\ current_turn' = current_turn
          /\ ~tick'.accepted
          /\ tick'.oracle = "unused"
          /\ tick'.engine = "unused"]_vars

C2_Witness ==
    /\ tick.outcome = "unchanged"
    /\ tick.obs = last_fen_position
    /\ last_fen_position # NoFen
    /\ pending_fen = NoFen

\* C3: on acceptance of a position that differs from the previous accepted
\* position in at most 6 cells, more white arrivals than black make the turn
\* black and more black arrivals than white make it white, whatever the
\* previous turn was.
C3_ArrivalsDecideTurn ==
    (AcceptedOver /\ Changed(tick.was, last_fen_position) <= MAX_CHANGED) =>
        /\ WhiteIn(tick.was, last_fen_position) > BlackIn(tick.was, last_fen_position)
              => current_turn = "b"
        /\ BlackIn(tick.was, last_fen_position) > WhiteIn(tick.was, last_fen_position)
              => current_turn = "w"

\* the white pawn advance e2-e4 accepted over the starting position while
\* the previous turn was black
C3_Witness ==
    /\ AcceptedOver
    /\ tick.was = FenPositionOf(StartLayout)
    /\ last_fen_position = FenPositionOf(E4Layout)
    /\ Changed(tick.was, last_fen_position) = 2
    /\ tick.turn_was = "b"
    /\ current_turn = "b"

\* C4: on acceptance of a position that differs from the previous accepted
\* position in more than 6 cells, acceptedTurn keeps its previous value and
\* acceptedPosition becomes the new position.
C4_NoiseKeepsTurn ==
    (AcceptedOver /\ Changed(tick.was, last_fen_position) > MAX_CHANGED) =>
        /\ current_turn = tick.turn_was
        /\ last_fen_position = tick.obs

\* C5: on acceptance with tied arrival counts where the rules oracle
\* validates the new position for neither turn, acceptedTurn keeps its
\* previous value.
C5_NeitherValidKeepsTurn ==
    (/\ AcceptedOver
     /\ Changed(tick.was, last_fen_position) <= MAX_CHANGED
     /\ WhiteIn(tick.was, last_fen_position) = BlackIn(tick.was, last_fen_position)
     /\ tick.oracle = "asked"
     /\ \A t \in Turns : ~tick.valid[t]) =>
        current_turn = tick.turn_was

C7_QueryOnlyOnOurTurn ==
    /\ tick.engine # "unused" => (tick.accepted /\ current_turn = player_color)
    /\ (tick.accepted /\ current_turn # player_color) =>
          (tick.engine = "unused" /\ highlights.rects = <<>>)

C7_Witness ==
    /\ tick.accepted
    /\ tick.outcome = "opponent_turn"
    /\ current_turn # player_color
    /\ highlights.rects = <<>>

\* C8: whenever highlights are shown they come from the engine query made
\* for the position that is acceptedPosition at that moment.
C8_HighlightsForAccepted ==
    highlights.rects # <<>> =>
        /\ Split(highlights.query, " ")[1] = last_fen_position
        /\ highlights.query = last_move.query

\* highlights shown for a position that superseded an earlier accepted one
\* for which the engine had been queried as well
C8_Witness ==
    /\ highlights.rects # <<>>
    /\ AcceptedOver
    /\ tick.was # last_fen_position
    /\ tick.outcome = "best_move"

\* C9: when the engine call raises or yields no move, the tick ends with
\* empty highlights and a status message, running stays true and the timer
\* goes on scanning.
C9_EngineFailure ==
    tick.engine \in {"none", Raise} =>
        /\ highlights.rects = <<>>
        /\ status.text = "no_legal_moves"
        /\ tick.outcome = "no_move"
        /\ running
        /\ scan_timer
        /\ ENABLED ScanPosition

C9_Witness ==
    /\ tick.engine = Raise
    /\ tick.outcome = "no_move"
    /\ last_move # NoMove
    /\ running

\* C10: a tick that finds no board ends in the scanning state with empty
\* highlights, running stays true and the timer goes on detecting; running
\* becomes false only by stop.
C10_NoBoardRecoverable ==
    /\ [](tick.outcome = "no_board" =>
            /\ highlights.rects = <<>>
            /\ status.text = "no_board"
            /\ running
            /\ scan_timer)
    /\ [][(running /\ ~running') => tick'.outcome = "stop"]_vars

C10_Witness ==
    /\ tick.outcome = "no_board"
    /\ last_fen_position # NoFen
    /\ last_move # NoMove
    /\ highlights.rects = <<>>
    /\ running

\* C16: on acceptance with tied arrival counts the rules oracle
\* (_is_valid_for_turn: valid board with at least one legal move) decides:
\* the toggled turn when the position validates for it, else the previous
\* turn when the position validates for that.
C16_OracleOrder ==
    (/\ AcceptedOver
     /\ Changed(tick.was, last_fen_position) <= MAX_CHANGED
     /\ WhiteIn(tick.was, last_fen_position) = BlackIn(tick.was, last_fen_position)
     /\ tick.oracle = "asked") =>
        LET toggled == IF tick.turn_was = "w" THEN "b" ELSE "w"
        IN  /\ tick.for_turn[toggled] => current_turn = toggled
            /\ (~tick.for_turn[toggled] /\ tick.for_turn[tick.turn_was])
                  => current_turn = tick.turn_was

\* ------------------------------------------------------------------------
\* The canonical notation as a function of the layout (piece_recognizer.py)
\* ------------------------------------------------------------------------
\* a layout with no white piece in the two top and the two bottom rows
MidLayout ==
    Put(Put(Put(Put([r \in 1..8 |-> EmptyRow], 5, 4, "K"), 6, 2, "P"),
            3, 5, "k"), 4, 7, "p")

ProbePieces == {None, "P", "k", "Q"}

\* the layouts examined: every layout a frame may show and MidLayout, with
\* any one cell rewritten
ProbeLayouts ==
    {Put(l, rc[1], rc[2], p) :
        l \in Layouts \cup {MidLayout}, rc \in Cells, p \in ProbePieces}

\* the reader of the notation: expand of every group, the 180 degree
\* rotation undone when white is not on the bottom
parse_fen(piece_placement, white_on_bottom) ==
    LET rows == Split(piece_placement, "/")
        grid == [r \in 1..Len(rows) |-> expand(rows[r])]
    IN  IF white_on_bottom THEN grid ELSE Rot180(grid)

FenInit ==
    /\ VisionInit
    /\ sel = NoSel
    /\ probe \in {[kind |-> "fen", positions |-> l, done |-> FALSE,
                   fen |-> NoFen, fen_rot |-> NoFen, parsed |-> <<>>] :
                    l \in ProbeLayouts}

FenApply ==
    /\ probe.kind = "fen"
    /\ ~probe.done
    /\ probe' =
        [probe EXCEPT
            !.done = TRUE,
            !.fen = Split(positions_to_fen(probe.positions, "w"), " ")[1],
            !.fen_rot = Split(positions_to_fen(Rot180(probe.positions), "w"),
                              " ")[1],
            !.parsed = parse_fen(
                         Split(positions_to_fen(probe.positions, "w"), " ")[1],
                         detect_orientation(probe.positions))]
    /\ UNCHANGED << vision, sel >>

FenSpec == FenInit /\ [][FenApply]_vars

WhiteBottom(positions) == CountWhite(positions, {7, 8})

WhiteTop(positions) == CountWhite(positions, {1, 2})

\* C11 as stated: positions_to_fen yields the same piece placement for every
\* layout and its 180 degree rotation.
C11_OrientationIndependent ==
    probe.done => probe.fen = probe.fen_rot

\* C11 amended: positions_to_fen yields the same piece placement for a layout
\* and its 180 degree rotation whenever the numbers of white pieces in the
\* two bottom rows and in the two top rows differ.
C11_OrientationIndependentUntied ==
    (probe.done /\ WhiteBottom(probe.positions) # WhiteTop(probe.positions))
        => probe.fen = probe.fen_rot

\* a layout read with black on the bottom that is not its own rotation
C11_Witness ==
    /\ probe.done
    /\ WhiteBottom(probe.positions) < WhiteTop(probe.positions)
    /\ probe.positions # Rot180(probe.positions)
    /\ probe.fen = probe.fen_rot
    /\ probe.fen # board_to_fen(probe.positions)

\* C12: the notation of a layout has 8 groups separated by "/", each group
\* describes exactly 8 cells, and parsing it back (digits expanded, the
\* rotation undone when white is not on the bottom) gives the layout again.
C12_RoundTrip ==
    probe.done =>
        /\ Len(Split(probe.fen, "/")) = 8
        /\ \A r \in 1..8 : Len(ExpandFrom(Split(probe.fen, "/")[r], 1)) = 8
        /\ probe.parsed = probe.positions

\* a layout read with black on the bottom, with runs of empty cells
C12_Witness ==
    /\ probe.done
    /\ ~detect_orientation(probe.positions)
    /\ probe.parsed = probe.positions
    /\ \E r \in 1..8 : Len(Split(probe.fen, "/")[r]) \in 2..7

\* ------------------------------------------------------------------------
\* move_selector.py: HumanMoveSelector
\* ------------------------------------------------------------------------
NUM_CANDIDATES == 5
TREND_WINDOW == 6

NoElo == 0 - 1      \* _opponent_elo is None

E2E4 == <<"e", "2", "e", "4">>

D2D4 == <<"d", "2", "d", "4">>

G1F3 == <<"g", "1", "f", "3">>

\* what engine.get_top_moves(fen, NUM_CANDIDATES) may return: at most
\* NUM_CANDIDATES candidates with distinct moves, best evaluation first
TopLists ==
    { <<>>,
      << [move |-> E2E4, eval |-> 0] >>,
      << [move |-> E2E4, eval |-> 0], [move |-> D2D4, eval |-> 0 - 50] >>,
      << [move |-> D2D4, eval |-> 0 - 200], [move |-> E2E4, eval |-> 0 - 250],
         [move |-> G1F3, eval |-> 0 - 250] >> }

Elos == {NoElo, 1500}

\* what the latest operation on the selector was: for select_move the number
\* of candidates, the top candidate's move, the move returned and whether the
\* temperature model and the sampling were run
SelOp(op, n, top, returned, model) ==
    [op |-> op, n |-> n, top |-> top, returned |-> returned, model |-> model]

SelNew ==
    [state |-> "ready", eval_history |-> <<>>, move_number |-> 0,
     consecutive_best |-> 0, opponent_elo |-> NoElo, total_moves |-> 0,
     best_move_hits |-> 0, total_cpl |-> 0,
     last |-> SelOp("init", 0, <<>>, <<>>, FALSE)]

record_keep_streak(s, top_moves, chosen) ==
    [s EXCEPT !.consecutive_best = s.consecutive_best + 1,
              !.move_number = s.move_number + 1]

record(s, top_moves, chosen) ==
    [s EXCEPT !.consecutive_best =
                  IF chosen = top_moves[1].move
                  THEN s.consecutive_best + 1
                  ELSE 0,
              !.move_number = s.move_number + 1]

is_single_never(top_moves) == FALSE

is_single(top_moves) == Len(top_moves) = 1

\* next(m["eval"] for m in top_moves if m["move"] == chosen, best_eval)
chosen_eval(top_moves, chosen, best_eval) ==
    IF \E i \in 1..Len(top_moves) : top_moves[i].move = chosen
    THEN top_moves[CHOOSE i \in 1..Len(top_moves) :
                      /\ top_moves[i].move = chosen
                      /\ \A j \in 1..(i - 1) : top_moves[j].move # chosen].eval
    ELSE best_eval

\* _weighted_select: every weight is exp of an exponent clamped at -20,
\* hence positive, so random.choices may return any candidate; pick is the
\* index it draws.  The factors and the temperature only weigh the draw.
weighted_select(moves, pick) == moves[pick].move

\* reply: what engine.get_best_move does when there is no candidate
select_move(s, top_moves, pick, reply) ==
    IF Len(top_moves) = 0
    THEN [s EXCEPT !.last = SelOp("select", 0, <<>>,
                                  get_best_move(NoFen, reply).move, FALSE)]
    ELSE IF is_single(top_moves)
    THEN [record(s, top_moves, top_moves[1].move) EXCEPT
            !.last = SelOp("select", Len(top_moves), top_moves[1].move,
                           top_moves[1].move, FALSE)]
    ELSE LET best_eval == top_moves[1].eval
             s1 == [s EXCEPT !.eval_history = Append(s.eval_history, best_eval)]
             chosen == weighted_select(top_moves, pick)
             s2 == record(s1, top_moves, chosen)
             delta == best_eval - chosen_eval(top_moves, chosen, best_eval)
         IN  [s2 EXCEPT
                !.total_moves = s2.total_moves + 1,
                !.total_cpl = s2.total_cpl + delta,
                !.best_move_hits =
                    IF chosen = top_moves[1].move
                    THEN s2.best_move_hits + 1
                    ELSE s2.best_move_hits,
                !.last = SelOp("select", Len(top_moves), top_moves[1].move,
                               chosen, TRUE)]

SelInit ==
    /\ VisionInit
    /\ sel = SelNew
    /\ probe = NoProbe

SelectMove ==
    /\ sel.state = "ready"
    /\ \E top_moves \in TopLists :
        /\ Len(top_moves) > 0 => sel.move_number < MaxMoves
        /\ \E pick \in 1..Max(1, Len(top_moves)), reply \in EngineReplies :
              sel' = select_move(sel, top_moves, pick, reply)
    /\ UNCHANGED << vision, probe >>

set_opponent_elo ==
    /\ sel.state = "ready"
    /\ \E elo \in Elos :
        sel' = [sel EXCEPT !.opponent_elo = elo,
                           !.last = SelOp("elo", 0, <<>>, <<>>, FALSE)]
    /\ UNCHANGED << vision, probe >>

reset ==
    /\ sel.state = "ready"
    /\ sel' = [SelNew EXCEPT !.last = SelOp("reset", 0, <<>>, <<>>, FALSE)]
    /\ UNCHANGED << vision, probe >>

SelNext == SelectMove \/ set_opponent_elo \/ reset

SelSpec == SelInit /\ [][SelNext]_vars

\* a step that is a select_move call with n candidates
SelectStep(n) ==
    /\ sel' # sel
    /\ sel'.last.op = "select"
    /\ sel'.last.n = n

\* C13: with exactly one candidate select_move returns that candidate's move
\* without running the temperature model or the sampling, increments the move
\* counter and extends the consecutive-best streak.
C13_SingleCandidate ==
    [][SelectStep(1) =>
          /\ sel'.last.returned = sel'.last.top
          /\ ~sel'.last.model
          /\ sel'.eval_history = sel.eval_history
          /\ sel'.total_moves = sel.total_moves
          /\ sel'.move_number = sel.move_number + 1
          /\ sel'.consecutive_best = sel.consecutive_best + 1]_vars

\* a single candidate returned after a non-top pick had reset the streak
C13_Witness ==
    /\ sel.state = "ready"
    /\ sel.last.op = "select"
    /\ sel.last.n = 1
    /\ sel.last.returned = E2E4
    /\ sel.consecutive_best = 1
    /\ sel.move_number = 3

\* C14: the length of evalHistory never exceeds the trend window of 6.
C14_HistoryBounded ==
    sel.state = "ready" => Len(sel.eval_history) <= TREND_WINDOW

\* C17: a select_move call that goes through candidate selection increases
\* the move number by one and makes the streak one more than before when the
\* top candidate is chosen and 0 when any other candidate is chosen.
C17_StreakBookkeeping ==
    [][(\E n \in 2..NUM_CANDIDATES : SelectStep(n)) =>
          /\ sel'.last.model
          /\ sel'.move_number = sel.move_number + 1
          /\ sel'.last.returned = sel'.last.top
                => sel'.consecutive_best = sel.consecutive_best + 1
          /\ sel'.last.returned # sel'.last.top
                => sel'.consecutive_best = 0]_vars

\* a non-top pick among three candidates resets a streak of at least 2
C17_Witness ==
    /\ sel.state = "ready"
    /\ sel.last.op = "select"
    /\ sel.last.n = 3
    /\ sel.last.returned = G1F3
    /\ sel.consecutive_best = 0
    /\ sel.move_number >= 3
    /\ sel.best_move_hits >= 2

\* ------------------------------------------------------------------------
\* python floats, taken as exact fractions n/d in lowest terms with d > 0
\* ------------------------------------------------------------------------
Abs(i) == IF i < 0 THEN 0 - i ELSE i

RECURSIVE GCD(_, _)
GCD(a, b) == IF b = 0 THEN a ELSE GCD(b, a % b)

Frac(n, d) ==
    LET g == GCD(Abs(n), Abs(d))
        sgn == IF d < 0 THEN 0 - 1 ELSE 1
    IN  [n |-> sgn * (n \div g), d |-> sgn * (d \div g)]

RInt(i) == [n |-> i, d |-> 1]

RAdd(a, b) == Frac(a.n * b.d + b.n * a.d, a.d * b.d)

RNeg(a) == [n |-> 0 - a.n, d |-> a.d]

RSub(a, b) == RAdd(a, RNeg(b))

\* cross-reduced before multiplying, to keep the numbers small
RMul(a, b) ==
    LET g1 == GCD(Abs(a.n), b.d)
        g2 == GCD(Abs(b.n), a.d)
    IN  Frac((a.n \div g1) * (b.n \div g2), (a.d \div g2) * (b.d \div g1))

RDiv(a, b) == RMul(a, Frac(b.d, b.n))

\* a < b, by integer parts and then the reciprocals of the fractional parts
RECURSIVE RLess(_, _)
RLess(a, b) ==
    LET qa == a.n \div a.d
        qb == b.n \div b.d
        ra == a.n % a.d
        rb == b.n % b.d
    IN  IF qa # qb THEN qa < qb
        ELSE IF rb = 0 THEN FALSE
        ELSE IF ra = 0 THEN TRUE
        ELSE RLess([n |-> b.d, d |-> rb], [n |-> a.d, d |-> ra])

RLe(a, b) == ~RLess(b, a)

RMin(a, b) == IF RLess(b, a) THEN b ELSE a

RMax(a, b) == IF RLess(a, b) THEN b ELSE a

\* ------------------------------------------------------------------------
\* move_selector.py: _compute_pressure
\* ------------------------------------------------------------------------
\* the upper ends of the branches of _compute_pressure, in order
PressureBreaks == << 0 - 400, 0 - 200, 0 - 100, 0, 150, 400 >>

\* the branch _compute_pressure takes: the first whose test eval_cp <= break
\* holds, 7 for the final return
pressure_branch(eval_cp) ==
    IF \E k \in 1..6 : eval_cp <= PressureBreaks[k]
    THEN CHOOSE k \in 1..6 :
            /\ eval_cp <= PressureBreaks[k]
            /\ \A j \in 1..(k - 1) : ~(eval_cp <= PressureBreaks[j])
    ELSE 7

pressure_piece_jump(k, eval_cp) ==
    CASE k = 1 -> RInt(0)
      [] k = 2 -> RDiv(RMul(Frac(1, 4), RInt(eval_cp + 400)), RInt(200))
      [] k = 3 -> RAdd(Frac(1, 4),
                       RDiv(RMul(Frac(1, 4), RInt(eval_cp + 200)), RInt(100)))
      [] k = 4 -> RAdd(Frac(1, 2),
                       RDiv(RMul(Frac(1, 4), RInt(eval_cp + 200)), RInt(100)))
      [] k = 5 -> RAdd(Frac(3, 4),
                       RDiv(RMul(Frac(1, 4), RInt(eval_cp)), RInt(150)))
      [] k = 6 -> RAdd(RInt(1),
                       RDiv(RMul(Frac(1, 10), RInt(eval_cp - 150)), RInt(250)))
      [] OTHER -> Frac(11, 10)

\* the value returned by branch k of _compute_pressure
pressure_piece(k, eval_cp) ==
    CASE k = 1 -> RInt(0)
      [] k = 2 -> RDiv(RMul(Frac(1, 4), RInt(eval_cp + 400)), RInt(200))
      [] k = 3 -> RAdd(Frac(1, 4),
                       RDiv(RMul(Frac(1, 4), RInt(eval_cp + 200)), RInt(100)))
      [] k = 4 -> RAdd(Frac(1, 2),
                       RDiv(RMul(Frac(1, 4), RInt(eval_cp + 100)), RInt(100)))
      [] k = 5 -> RAdd(Frac(3, 4),
                       RDiv(RMul(Frac(1, 4), RInt(eval_cp)), RInt(150)))
      [] k = 6 -> RAdd(RInt(1),
                       RDiv(RMul(Frac(1, 10), RInt(eval_cp - 150)), RInt(250)))
      [] OTHER -> Frac(11, 10)

compute_pressure(eval_cp) == pressure_piece(pressure_branch(eval_cp), eval_cp)

\* _compute_pressure applied to three consecutive evaluations
PressureInit ==
    /\ VisionInit
    /\ sel = NoSel
    /\ probe \in {[kind |-> "pressure", eval_cp |-> e, done |-> FALSE,
                   p0 |-> RInt(0), p1 |-> RInt(0), p2 |-> RInt(0)] :
                  e \in (0 - EvalSpan)..EvalSpan}

PressureApply ==
    /\ probe.kind = "pressure"
    /\ ~probe.done
    /\ probe' = [probe EXCEPT !.done = TRUE,
                              !.p0 = compute_pressure(probe.eval_cp),
                              !.p1 = compute_pressure(probe.eval_cp + 1),
                              !.p2 = compute_pressure(probe.eval_cp + 2)]
    /\ UNCHANGED << vision, sel >>

PressureSpec == PressureInit /\ [][PressureApply]_vars

\* the values the claim lists at the breakpoints
PressureAt ==
    << RInt(0), Frac(1, 4), Frac(1, 2), Frac(3, 4), RInt(1), Frac(11, 10) >>

\* C19: pressure is non-decreasing in the evaluation, lies in [0, 1.1], is 0
\* up to -400 and 1.1 from 400 on, takes the listed values at the
\* breakpoints, is linear between two breakpoints, and the two branches that
\* meet at a breakpoint give the same value there.
C19_PressureShape ==
    (probe.kind = "pressure" /\ probe.done) =>
        LET e == probe.eval_cp
        IN  /\ RLe(probe.p0, probe.p1)
            /\ RLe(RInt(0), probe.p0)
            /\ RLe(probe.p0, Frac(11, 10))
            /\ e <= 0 - 400 => probe.p0 = RInt(0)
            /\ e >= 400 => probe.p0 = Frac(11, 10)
            /\ \A k \in 1..6 :
                  /\ e = PressureBreaks[k] =>
                        /\ probe.p0 = PressureAt[k]
                        /\ pressure_piece(k, e) = pressure_piece(k + 1, e)
                  /\ (k < 6 /\ PressureBreaks[k] <= e
                            /\ e + 2 <= PressureBreaks[k + 1]) =>
                        RSub(probe.p2, probe.p1) = RSub(probe.p1, probe.p0)

\* the pressure just past a breakpoint, on the ramp between 0.50 and 0.75
C19_Witness ==
    /\ probe.kind = "pressure"
    /\ probe.done
    /\ probe.eval_cp = 0 - 100
    /\ probe.p0 = Frac(1, 2)
    /\ RLess(probe.p0, probe.p1)
    /\ RLess(probe.p1, Frac(3, 4))

\* ------------------------------------------------------------------------
\* move_selector.py: _compute_trend_urgency
\* ------------------------------------------------------------------------
MIN_TREND == 3

TrendEvals == {0 - 300, 0, 90}

\* sum(...) of floats
RECURSIVE RSum(_)
RSum(terms) ==
    IF terms = <<>> THEN RInt(0) ELSE RAdd(Head(terms), RSum(Tail(terms)))

window_all(eval_history) == eval_history

\* self._eval_history[-self.TREND_WINDOW:]
window(eval_history) ==
    SubSeq(eval_history, Max(1, Len(eval_history) - TREND_WINDOW + 1),
           Len(eval_history))

\* enumerate(window) counts from 0: win[i + 1] is the value at index i
compute_trend_urgency(eval_history) ==
    IF Len(eval_history) < MIN_TREND THEN RInt(0)
    ELSE LET win == window(eval_history)
             n == Len(win)
             x_mean == Frac(n - 1, 2)
             y_mean == RDiv(RSum([k \in 1..n |-> RInt(win[k])]), RInt(n))
             nterm(i) == RMul(RSub(RInt(i), x_mean),
                              RSub(RInt(win[i + 1]), y_mean))
             dterm(i) == RMul(RSub(RInt(i), x_mean), RSub(RInt(i), x_mean))
             numer == RSum([k \in 1..n |-> nterm(k - 1)])
             denom == RSum([k \in 1..n |-> dterm(k - 1)])
         IN  IF denom = RInt(0) THEN RInt(0)
             ELSE LET slope == RDiv(numer, denom)
                  IN  IF RLe(RInt(0), slope) THEN RInt(0)
                      ELSE RMin(RInt(1),
                                RDiv([n |-> Abs(slope.n), d |-> slope.d],
                                     RInt(100)))

Histories == UNION {[1..n -> TrendEvals] : n \in 0..MaxHistory}

TrendInit ==
    /\ VisionInit
    /\ sel = NoSel
    /\ probe \in {[kind |-> "trend", eval_history |-> h, done |-> FALSE,
                   urgency |-> RInt(0)] : h \in Histories}

TrendApply ==
    /\ probe.kind = "trend"
    /\ ~probe.done
    /\ probe' = [probe EXCEPT
                    !.done = TRUE,
                    !.urgency = compute_trend_urgency(probe.eval_history)]
    /\ UNCHANGED << vision, sel >>

TrendSpec == TrendInit /\ [][TrendApply]_vars

RECURSIVE Sum(_)
Sum(terms) == IF terms = <<>> THEN 0 ELSE Head(terms) + Sum(Tail(terms))

\* the last up to TREND_WINDOW recorded evaluations
LastUpTo6(h) == [i \in 1..Min(Len(h), TREND_WINDOW) |->
                    h[Len(h) - Min(Len(h), TREND_WINDOW) + i]]

\* least-squares slope of the values w against their indices 0..Len(w)-1, for
\* at least two values: (n Sxy - Sx Sy) / (n Sxx - Sx Sx)
LeastSquaresSlope(w) ==
    LET n == Len(w)
        Sx == Sum([k \in 1..n |-> k - 1])
        Sy == Sum(w)
        Sxy == Sum([k \in 1..n |-> (k - 1) * w[k]])
        Sxx == Sum([k \in 1..n |-> (k - 1) * (k - 1)])
    IN  Frac(n * Sxy - Sx * Sy, n * Sxx - Sx * Sx)

\* 0 for a non-negative slope, min(1, |slope| / 100) for a negative one
UrgencyOfSlope(slope) ==
    IF slope.n >= 0 THEN RInt(0)
    ELSE IF 0 - slope.n >= 100 * slope.d THEN RInt(1)
    ELSE Frac(0 - slope.n, 100 * slope.d)

\* C20: for every recorded history (two evaluations are enough for a slope)
\* the trend urgency is the value determined by the least-squares slope of
\* the last up to 6 evaluations, histories of only 2 evaluations included.
C20_TrendBySlope ==
    (probe.kind = "trend" /\ probe.done /\ Len(probe.eval_history) >= 2) =>
        probe.urgency =
            UrgencyOfSlope(LeastSquaresSlope(LastUpTo6(probe.eval_history)))

\* C20 amended: the value determined by the slope for histories of at least
\* 3 evaluations, and 0 for shorter ones.
C20_TrendBySlopeFrom3 ==
    (probe.kind = "trend" /\ probe.done) =>
        IF Len(probe.eval_history) >= 3
        THEN probe.urgency =
                UrgencyOfSlope(LeastSquaresSlope(LastUpTo6(probe.eval_history)))
        ELSE probe.urgency = RInt(0)

\* a falling history longer than the window, whose first evaluation is
\* outside it, with an urgency strictly between 0 and 1
C20_Witness ==
    /\ probe.kind = "trend"
    /\ probe.done
    /\ Len(probe.eval_history) = 7
    /\ probe.eval_history[1] = 0 - 300
    /\ probe.eval_history[2] = 90
    /\ RLess(RInt(0), probe.urgency)
    /\ RLess(probe.urgency, RInt(1))

\* ------------------------------------------------------------------------
\* move_selector.py: _compute_temperature
\* ------------------------------------------------------------------------
BOOK_MOVES == 6
STREAK_MIN == 5
FLOOR_DESPERATE == 3
FLOOR_NORMAL == 8

Phases == {"opening", "early_middle", "middlegame", "endgame"}

base_temperature(phase) ==
    CASE phase = "opening" -> 45
      [] phase = "early_middle" -> 70
      [] phase = "middlegame" -> 60
      [] phase = "endgame" -> 35

book_factor(move_number) ==
    IF move_number < BOOK_MOVES
    THEN RAdd(Frac(11, 20), RMul(Frac(move_number, BOOK_MOVES), Frac(9, 20)))
    ELSE RInt(1)

pressure_factor(pressure) == RAdd(Frac(2, 25), RMul(Frac(23, 25), pressure))

trend_factor(trend_urgency) == RSub(RInt(1), RMul(Frac(11, 20), trend_urgency))

crit_factor(criticality) == RSub(RInt(1), RMul(Frac(13, 20), criticality))

anti_engine_off(consecutive_best) == RInt(1)

anti_engine(consecutive_best) ==
    IF consecutive_best >= STREAK_MIN
    THEN RMin(RAdd(RInt(1),
                   RMul(Frac(7, 100), RInt(consecutive_best - (STREAK_MIN - 1)))),
              Frac(27, 20))
    ELSE RInt(1)

\* base * pressure_factor * trend_factor * crit_factor * anti_engine
\*      * opponent_factor, base already scaled by the book factor
raw_temperature(phase, pressure, trend_urgency, criticality, opponent_factor, move_number, consecutive_best) ==
    RMul(RMul(RMul(RMul(RMul(RMul(RInt(base_temperature(phase)),
                                  book_factor(move_number)),
                             pressure_factor(pressure)),
                        trend_factor(trend_urgency)),
                   crit_factor(criticality)),
              anti_engine(consecutive_best)),
         opponent_factor)

floor_temperature_strict(pressure, temperature) ==
    IF RLess(pressure, Frac(3, 20))
    THEN RMax(RInt(FLOOR_DESPERATE), temperature)
    ELSE RMax(RInt(FLOOR_NORMAL), temperature)

floor_temperature(pressure, temperature) ==
    IF RLe(pressure, Frac(3, 20))
    THEN RMax(RInt(FLOOR_DESPERATE), temperature)
    ELSE RMax(RInt(FLOOR_NORMAL), temperature)

compute_temperature(phase, pressure, trend_urgency, criticality, opponent_factor, move_number, consecutive_best) ==
    floor_temperature(pressure,
        raw_temperature(phase, pressure, trend_urgency, criticality,
                        opponent_factor, move_number, consecutive_best))

\* pressures _compute_pressure gives, on both sides of 0.15 (= pressure at -280)
TempPressures ==
    {compute_pressure(e) : e \in {0 - 400, 0 - 280, 0 - 240, 0 - 200, 0, 150, 400}}

TempTrends == {RInt(0), RInt(1)}

TempCrits == {RInt(0), RInt(1)}

\* _compute_opponent_factor at 2200, without an estimate, and below 1000
TempOpponents == {Frac(3, 5), RInt(1), Frac(6, 5)}

TempMoveNumbers == {0, 2, BOOK_MOVES}

\* the same position with a streak below STREAK_MIN (lo) and one from it on (hi)
TempInit ==
    /\ VisionInit
    /\ sel = NoSel
    /\ probe \in {[kind |-> "temp", phase |-> ph, pressure |-> pr,
                   trend_urgency |-> tr, criticality |-> cr,
                   opponent_factor |-> op, move_number |-> mn,
                   streak_lo |-> lo, streak_hi |-> hi, done |-> FALSE,
                   t_lo |-> RInt(0), t_hi |-> RInt(0)] :
                  ph \in Phases, pr \in TempPressures, tr \in TempTrends,
                  cr \in TempCrits, op \in TempOpponents,
                  mn \in TempMoveNumbers, lo \in 0..(STREAK_MIN - 1),
                  hi \in STREAK_MIN..MaxStreak}

TempApply ==
    /\ probe.kind = "temp"
    /\ ~probe.done
    /\ probe' = [probe EXCEPT
            !.done = TRUE,
            !.t_lo = compute_temperature(probe.phase, probe.pressure,
                        probe.trend_urgency, probe.criticality,
                        probe.opponent_factor, probe.move_number,
                        probe.streak_lo),
            !.t_hi = compute_temperature(probe.phase, probe.pressure,
                        probe.trend_urgency, probe.criticality,
                        probe.opponent_factor, probe.move_number,
                        probe.streak_hi)]
    /\ UNCHANGED << vision, sel >>

TempSpec == TempInit /\ [][TempApply]_vars

TempDone == probe.kind = "temp" /\ probe.done

\* the floor that applies to the probed pressure
FloorOf(pressure) ==
    IF RLe(pressure, Frac(3, 20)) THEN RInt(3) ELSE RInt(8)

\* the product before the floor, for the probed inputs and the given streak
ProbeProduct(streak) ==
    raw_temperature(probe.phase, probe.pressure, probe.trend_urgency,
                    probe.criticality, probe.opponent_factor,
                    probe.move_number, streak)

\* C15: for all inputs the temperature with a streak >= 5 is strictly greater
\* than the temperature for the identical inputs with a streak < 5.
C15_StreakRaisesTemperature == TempDone => RLess(probe.t_lo, probe.t_hi)

\* C15 amended: it is never smaller, and it is strictly greater exactly when it
\* is above the floor for the pressure; otherwise both are the floor.
C15_StreakRaisesAboveFloor ==
    TempDone =>
        /\ RLe(probe.t_lo, probe.t_hi)
        /\ RLess(FloorOf(probe.pressure), probe.t_hi)
              => RLess(probe.t_lo, probe.t_hi)
        /\ probe.t_hi = FloorOf(probe.pressure) => probe.t_lo = probe.t_hi

\* the streak lifts a temperature that sat on the floor of 8 above it
C15_Witness ==
    /\ TempDone
    /\ probe.streak_hi = MaxStreak
    /\ RLess(Frac(3, 20), probe.pressure)
    /\ probe.t_lo = RInt(8)
    /\ RLess(RInt(8), probe.t_hi)

\* C18: the temperature is max(3, product) when pressure <= 0.15 and
\* max(8, product) otherwise; it is never below 3, and never below 8 when
\* pressure > 0.15.
C18_TemperatureFloor ==
    TempDone =>
        /\ probe.t_lo = (IF RLe(probe.pressure, Frac(3, 20))
                         THEN RMax(RInt(3), ProbeProduct(probe.streak_lo))
                         ELSE RMax(RInt(8), ProbeProduct(probe.streak_lo)))
        /\ probe.t_hi = (IF RLe(probe.pressure, Frac(3, 20))
                         THEN RMax(RInt(3), ProbeProduct(probe.streak_hi))
                         ELSE RMax(RInt(8), ProbeProduct(probe.streak_hi)))
        /\ RLe(RInt(3), probe.t_lo)
        /\ RLe(RInt(3), probe.t_hi)
        /\ RLess(Frac(3, 20), probe.pressure)
              => (RLe(RInt(8), probe.t_lo) /\ RLe(RInt(8), probe.t_hi))

\* pressure exactly 0.15: the floor of 3 applies and a product between 3 and 8
\* is returned as it is
C18_Witness ==
    /\ TempDone
    /\ probe.pressure = Frac(3, 20)
    /\ RLess(RInt(3), probe.t_lo)
    /\ RLess(probe.t_lo, RInt(8))
    /\ probe.t_lo = ProbeProduct(probe.streak_lo)

\* ------------------------------------------------------------------------
\* Properties of the scan loop, continued
\* ------------------------------------------------------------------------
\* the outcomes of a tick that classified a position different from the
\* accepted one
ChangedOutcomes ==
    {"pending", "few_pieces", "opponent_turn", "no_move", "best_move"}

\* C23: at the end of every tick pendingCount is 0 or 1, it is 0 exactly
\* when pendingPosition is none, and a pendingPosition that is not none
\* differs from acceptedPosition.
C23_PendingBuffer ==
    /\ pending_count \in {0, 1}
    /\ pending_count = 0 <=> pending_fen = NoFen
    /\ pending_fen # NoFen => pending_fen # last_fen_position

\* a position seen once while another one is accepted
C23_Witness ==
    /\ tick.outcome = "pending"
    /\ pending_count = 1
    /\ pending_fen = tick.obs
    /\ last_fen_position # NoFen
    /\ pending_fen # last_fen_position

\* C24: while highlights are held acceptedTurn is the player's colour and the
\* latest classified position is acceptedPosition; a tick that observes a
\* position different from acceptedPosition ends with no highlights when it
\* does not accept, and with none but those of the new position when it does.
C24_HighlightsOnlyForCurrent ==
    /\ highlights.rects # <<>> =>
          /\ current_turn = player_color
          /\ last_classified = last_fen_position
    /\ tick.outcome = "pending" => highlights = NoHighlights
    /\ (tick.outcome \in ChangedOutcomes /\ highlights.rects # <<>>) =>
          /\ tick.accepted
          /\ Split(highlights.query, " ")[1] = tick.obs

\* with highlights held for an accepted position, the first tick that sees
\* another position has removed them
C24_Witness ==
    /\ tick.outcome = "pending"
    /\ highlights = NoHighlights
    /\ last_move # NoMove
    /\ Split(last_move.query, " ")[1] = last_fen_position
    /\ current_turn = player_color
    /\ tick.obs # last_fen_position

\* C25: a tick that finds no board, or finds one without templates, changes
\* none of acceptedPosition, acceptedTurn, pendingPosition, pendingCount; so
\* a tick that observes the pending position right after a no-board tick
\* accepts it.
C25_NoBoardKeepsPending ==
    /\ [][tick'.outcome \in {"no_board", "calibrate"} =>
            UNCHANGED << last_fen_position, current_turn, pending_fen,
                         pending_count >>]_vars
    /\ [][(/\ tick.outcome = "no_board"
           /\ pending_fen # NoFen
           /\ tick'.outcome \in ChangedOutcomes
           /\ tick'.obs = pending_fen) =>
            /\ tick'.accepted
            /\ last_fen_position' = pending_fen]_vars

\* P seen once, then no board: P is still pending
C25_Witness ==
    /\ tick.outcome = "no_board"
    /\ pending_fen # NoFen
    /\ pending_count = 1
    /\ last_classified = pending_fen

\* C26: the engine is queried, and a move comes to be shown, only in a tick
\* that accepts a position different from the one accepted before; a tick
\* that observes acceptedPosition queries nothing and shows nothing new.
C26_OneQueryPerAcceptance ==
    /\ [][(\/ tick'.engine # "unused"
           \/ (highlights'.rects # <<>> /\ highlights' # highlights)
           \/ last_move' # last_move) =>
            /\ tick'.accepted
            /\ tick'.obs # last_fen_position
            /\ last_fen_position' = tick'.obs]_vars
    /\ [][tick'.outcome = "unchanged" =>
            /\ tick'.engine = "unused"
            /\ last_move' = last_move
            /\ highlights' = highlights]_vars

\* the starting position is accepted on the player's turn, the one query gave
\* no move, and the position is observed again: nothing is shown
C26_Witness ==
    /\ tick.outcome = "unchanged"
    /\ last_fen_position = FenPositionOf(StartLayout)
    /\ current_turn = player_color
    /\ last_move = NoMove
    /\ highlights = NoHighlights

\* C27: a tick that observes a position different from acceptedPosition
\* without accepting it removes the highlights, and the ticks that observe
\* acceptedPosition afterwards leave them empty.
C27_MisreadLosesSuggestion ==
    /\ [][(highlights.rects # <<>> /\ tick'.outcome = "pending") =>
            highlights' = NoHighlights]_vars
    /\ [][(highlights = NoHighlights /\ tick'.outcome = "unchanged") =>
            highlights' = NoHighlights]_vars

\* the accepted position, for which a move had been found, is observed
\* again after the misread: no highlights
C27_Witness ==
    /\ tick.outcome = "unchanged"
    /\ highlights = NoHighlights
    /\ last_move # NoMove
    /\ Split(last_move.query, " ")[1] = last_fen_position
    /\ current_turn = player_color
    /\ running

\* ------------------------------------------------------------------------
\* Properties of the move selector, continued
\* ------------------------------------------------------------------------
\* the session state of the selector, without the record of the latest call
Session(s) ==
    << s.eval_history, s.move_number, s.consecutive_best, s.opponent_elo,
       s.total_moves, s.best_move_hits, s.total_cpl >>

\* C28: 0 <= bestMoveHits <= totalMoves <= moveNumber and
\* 0 <= consecutiveBestStreak <= moveNumber after any calls since
\* construction or reset; a call without candidates changes nothing of the
\* session state; a call with one candidate increases moveNumber and leaves
\* totalMoves alone.
C28_SessionCounters ==
    /\ [](sel.state = "ready" =>
            /\ 0 <= sel.best_move_hits
            /\ sel.best_move_hits <= sel.total_moves
            /\ sel.total_moves <= sel.move_number
            /\ 0 <= sel.consecutive_best
            /\ sel.consecutive_best <= sel.move_number)
    /\ [][SelectStep(0) => Session(sel') = Session(sel)]_vars
    /\ [][SelectStep(1) =>
            /\ sel'.move_number = sel.move_number + 1
            /\ sel'.total_moves = sel.total_moves]_vars

\* a call without candidates in a session that had calls of both other kinds
C28_Witness ==
    /\ sel.state = "ready"
    /\ sel.last.op = "select"
    /\ sel.last.n = 0
    /\ sel.total_moves >= 2
    /\ sel.best_move_hits = 1
    /\ sel.move_number > sel.total_moves
    /\ sel.consecutive_best < sel.move_number

\* ------------------------------------------------------------------------
\* board_detector.py: detect_board, from the bounding boxes of the contours
\* ------------------------------------------------------------------------
MIN_AREA == 10000

NoBox == [x |-> 0, y |-> 0, w |-> 0, h |-> 0]

\* cv2.boundingRect of a contour: too small, exactly the minimal area,
\* aspect exactly 0.8 and exactly 1.2, two squarish boxes of equal area, a
\* wide strip and a box with no height
BoxSamples ==
    { [x |-> 5, y |-> 5, w |-> 50, h |-> 50],
      [x |-> 10, y |-> 10, w |-> 100, h |-> 100],
      [x |-> 20, y |-> 10, w |-> 120, h |-> 150],
      [x |-> 30, y |-> 10, w |-> 180, h |-> 150],
      [x |-> 40, y |-> 20, w |-> 160, h |-> 150],
      [x |-> 200, y |-> 30, w |-> 150, h |-> 160],
      [x |-> 0, y |-> 100, w |-> 300, h |-> 100],
      [x |-> 0, y |-> 0, w |-> 200, h |-> 0] }

Area(box) == box.w * box.h

\* aspect = w / h if h > 0 else 0;  0.8 < aspect < 1.2
squarish_closed(box) ==
    /\ box.h > 0
    /\ 4 * box.h <= 5 * box.w
    /\ 5 * box.w <= 6 * box.h

squarish(box) ==
    /\ box.h > 0
    /\ 4 * box.h < 5 * box.w
    /\ 5 * box.w < 6 * box.h

is_better_or_equal(area, best_area) == area >= best_area

is_better(area, best_area) == area > best_area

\* the loop over the contours: sel_ is (best, best_area) so far
RECURSIVE best_box(_, _, _)
best_box(boxes, i, sel_) ==
    IF i > Len(boxes) THEN sel_.best
    ELSE LET box == boxes[i]
             area == Area(box)
         IN  IF area < MIN_AREA THEN best_box(boxes, i + 1, sel_)
             ELSE IF squarish(box) /\ is_better(area, sel_.best_area)
             THEN best_box(boxes, i + 1, [best |-> box, best_area |-> area])
             ELSE best_box(boxes, i + 1, sel_)

\* the square of side max(w, h) centred on the shorter dimension
square_up(box) ==
    LET size == Max(box.w, box.h)
    IN  [x |-> IF box.w < size THEN box.x - ((size - box.w) \div 2) ELSE box.x,
         y |-> IF box.h < size THEN box.y - ((size - box.h) \div 2) ELSE box.y,
         size |-> size]

detect_board(boxes) ==
    LET best == best_box(boxes, 1, [best |-> NoBox, best_area |-> 0])
    IN  IF best = NoBox THEN NoBoard ELSE square_up(best)

BoxLists == UNION {[1..n -> BoxSamples] : n \in 0..MaxBoxes}

DetectInit ==
    /\ VisionInit
    /\ sel = NoSel
    /\ probe \in {[kind |-> "detect", boxes |-> bs, done |-> FALSE,
                   best |-> NoBox, board |-> NoBoard] : bs \in BoxLists}

DetectApply ==
    /\ probe.kind = "detect"
    /\ ~probe.done
    /\ probe' = [probe EXCEPT
            !.done = TRUE,
            !.best = best_box(probe.boxes, 1, [best |-> NoBox, best_area |-> 0]),
            !.board = detect_board(probe.boxes)]
    /\ UNCHANGED << vision, sel >>

DetectSpec == DetectInit /\ [][DetectApply]_vars

DetectDone == probe.kind = "detect" /\ probe.done

\* the survivors being the boxes of area >= 10000 whose aspect ratio is in
\* the closed or in the open range: nothing is found exactly when there is no
\* survivor, and otherwise the chosen box is the first survivor of maximal area
FirstLargest(closed) ==
    LET bs == probe.boxes
        ok(i) == /\ Area(bs[i]) >= 10000
                 /\ IF closed THEN squarish_closed(bs[i]) ELSE squarish(bs[i])
    IN  /\ (probe.best = NoBox /\ probe.board = NoBoard)
              <=> ~\E i \in 1..Len(bs) : ok(i)
        /\ (\E i \in 1..Len(bs) : ok(i)) =>
              \E i \in 1..Len(bs) :
                  /\ ok(i)
                  /\ probe.best = bs[i]
                  /\ \A j \in 1..Len(bs) : ok(j) => Area(bs[j]) <= Area(bs[i])
                  /\ \A j \in 1..(i - 1) : ok(j) => Area(bs[j]) < Area(bs[i])

\* C21: the survivors are the boxes of area >= 10000 with aspect ratio in the
\* closed range [0.8, 1.2] (exactly 0.8 or 1.2 survives); not-found exactly
\* when there is none, else the first-encountered survivor of maximal area.
C21_ClosedAspectRange == DetectDone => FirstLargest(TRUE)

\* C21 amended: the same with the aspect ratio strictly between 0.8 and 1.2.
C21_OpenAspectRange == DetectDone => FirstLargest(FALSE)

\* two survivors of equal maximal area after a box of aspect exactly 0.8:
\* the first of the two is chosen
C21_Witness ==
    /\ DetectDone
    /\ Len(probe.boxes) = 3
    /\ probe.boxes[1] = [x |-> 20, y |-> 10, w |-> 120, h |-> 150]
    /\ probe.boxes[2] = [x |-> 40, y |-> 20, w |-> 160, h |-> 150]
    /\ probe.boxes[3] = [x |-> 200, y |-> 30, w |-> 150, h |-> 160]
    /\ probe.best = probe.boxes[2]
    /\ probe.board = [x |-> 40, y |-> 15, size |-> 160]

\* ------------------------------------------------------------------------
\* piece_recognizer.py: the cell crops of recognize_board
\* ------------------------------------------------------------------------
\* round(n / d), d > 0: to the nearest integer, a half to the even one
round_half_even(n, d) ==
    LET q == n \div d
        r == n % d
    IN  IF 2 * r < d THEN q
        ELSE IF 2 * r > d THEN q + 1
        ELSE IF q % 2 = 0 THEN q ELSE q + 1

\* max(1, round(sq * 0.04)), sq = size / 8
inset_of(board) == Max(1, round_half_even(board.size, 200))

crop_unclamped(board, frame, row, col) ==
    LET inset == inset_of(board)
        x0 == round_half_even(8 * board.x + col * board.size, 8)
        y0 == round_half_even(8 * board.y + row * board.size, 8)
        w0 == round_half_even(board.size, 8)
    IN  [x |-> IF col = 0 THEN x0 + inset ELSE x0,
         y |-> IF row = 0 THEN y0 + inset ELSE y0,
         w |-> IF col \in {0, 7} THEN w0 - inset ELSE w0,
         h |-> IF row \in {0, 7} THEN w0 - inset ELSE w0]

\* the crop of cell (row, col), rows and columns counted from 0
crop(board, frame, row, col) ==
    LET c == crop_unclamped(board, frame, row, col)
        x == Max(0, Min(c.x, frame.w - 1))
        y == Max(0, Min(c.y, frame.h - 1))
    IN  [x |-> x, y |-> y, w |-> Min(c.w, frame.w - x), h |-> Min(c.h, frame.h - y)]

\* square_img.size == 0, for a crop with w >= 0 and h >= 0
is_empty_crop(c) == c.w * c.h = 0

\* what recognize_board puts in the cell: None for a crop without pixels,
\* otherwise whatever recognize_square finds there
cell_result(c) == IF is_empty_crop(c) THEN "None" ELSE "recognize_square"

\* geometries: origin left of or above the frame, inside it, and far right or
\* below; side 8 (one pixel per square) up to 300
CropBoards ==
    {[x |-> x, y |-> y, size |-> size] :
        x \in {0 - 30, 0, 40, 350}, y \in {0 - 10, 20, 280},
        size \in {8, 104, 260, 300}}

Frames == { [w |-> 0, h |-> 0], [w |-> 1, h |-> 1], [w |-> 120, h |-> 90],
            [w |-> 400, h |-> 300] }

Cells0 == (0..7) \X (0..7)

CropInit ==
    /\ VisionInit
    /\ sel = NoSel
    /\ probe \in {[kind |-> "crop", board |-> b, frame |-> f, done |-> FALSE,
                   crops |-> <<>>, positions |-> <<>>] :
                  b \in CropBoards, f \in Frames}

CropApply ==
    /\ probe.kind = "crop"
    /\ ~probe.done
    /\ probe' = [probe EXCEPT
            !.done = TRUE,
            !.crops = [rc \in Cells0 |->
                          crop(probe.board, probe.frame, rc[1], rc[2])],
            !.positions = [rc \in Cells0 |->
                cell_result(crop(probe.board, probe.frame, rc[1], rc[2]))]]
    /\ UNCHANGED << vision, sel >>

CropSpec == CropInit /\ [][CropApply]_vars

CropDone == probe.kind = "crop" /\ probe.done

\* C22: for every geometry and frame size each of the 64 crops satisfies
\* 0 <= x, 0 <= y, x + w <= frame width, y + h <= frame height, and a crop
\* with no pixels gives an empty square (every cell has a result).
C22_CropsInFrame ==
    CropDone =>
        \A rc \in Cells0 :
            LET c == probe.crops[rc]
            IN  /\ 0 <= c.x
                /\ 0 <= c.y
                /\ c.x + c.w <= probe.frame.w
                /\ c.y + c.h <= probe.frame.h
                /\ (c.w <= 0 \/ c.h <= 0) => probe.positions[rc] = "None"
                /\ probe.positions[rc] \in {"None", "recognize_square"}

\* a board that starts left of and above the frame and reaches past its right
\* and lower edges, with one-pixel squares on its first column left empty
C22_Witness ==
    /\ CropDone
    /\ probe.board = [x |-> 0 - 30, y |-> 0 - 10, size |-> 300]
    /\ probe.frame = [w |-> 120, h |-> 90]
    /\ probe.crops[<<0, 0>>].x = 0
    /\ probe.crops[<<7, 7>>].x + probe.crops[<<7, 7>>].w = 120
    /\ probe.positions[<<7, 7>>] = "recognize_square"

\* a crop without pixels: the first column of a board of one-pixel squares
C22_WitnessEmpty ==
    /\ CropDone
    /\ probe.board.size = 8
    /\ probe.frame = [w |-> 400, h |-> 300]
    /\ probe.crops[<<3, 0>>].w = 0
    /\ probe.positions[<<3, 0>>] = "None"

\* ------------------------------------------------------------------------
\* main.py 205-212, 292-295: the notation of a layout and the rectangles of
\* a move, both under the orientation detected for the layout
\* ------------------------------------------------------------------------
CoordLayouts ==
    {LayoutSeq[i] : i \in 1..Len(LayoutSeq)} \cup {MidLayout, Rot180(MidLayout)}

\* every square is the origin of one move and the target of another
CoordMoves ==
    { << FileChars[f], StrOfInt(k), FileChars[9 - f], StrOfInt(9 - k) >> :
        f \in 1..8, k \in 1..8 }

CoordInit ==
    /\ VisionInit
    /\ sel = NoSel
    /\ probe \in {[kind |-> "coord", positions |-> l, uci_move |-> m,
                   board |-> b, done |-> FALSE, white_on_bottom |-> TRUE,
                   fen_position |-> NoFen, rects |-> <<>>] :
                  l \in CoordLayouts, m \in CoordMoves,
                  b \in {BoardSeq[i] : i \in 1..Len(BoardSeq)}}

CoordApply ==
    /\ probe.kind = "coord"
    /\ ~probe.done
    /\ probe' = [probe EXCEPT
            !.done = TRUE,
            !.white_on_bottom = detect_orientation(probe.positions),
            !.fen_position = Split(positions_to_fen(probe.positions, "w"), " ")[1],
            !.rects = move_to_screen_coords(probe.uci_move, probe.board,
                                            detect_orientation(probe.positions))]
    /\ UNCHANGED << vision, sel >>

CoordSpec == CoordInit /\ [][CoordApply]_vars

CoordDone == probe.kind = "coord" /\ probe.done

\* what the notation holds at the k-th square of the move: rank 8 is the
\* first group, file a the first cell of a group
CanonicalAt(k) ==
    LET file == OrdMinusA(probe.uci_move[2 * k - 1])
        rank == IntOfChar(probe.uci_move[2 * k])
    IN  expand(Split(probe.fen_position, "/")[9 - rank])[file + 1]

\* the physical cells, rows and columns from 0, whose rectangle is rect
CellsWithRect(rect) ==
    {rc \in (0..7) \X (0..7) : SquareRect(probe.board, rc[1], rc[2]) = rect}

\* C29: for both orientations and both squares of a move, the rectangle
\* returned is that of exactly one physical cell, the one whose recognized
\* content the notation holds at that square: row 8 - rank and column file
\* when white is on the bottom, 7 minus each when black is.
C29_CoordsInverseOfFlip ==
    CoordDone =>
        \A k \in {1, 2} :
            LET file == OrdMinusA(probe.uci_move[2 * k - 1])
                rank == IntOfChar(probe.uci_move[2 * k])
                cell == IF probe.white_on_bottom
                        THEN << 8 - rank, file >>
                        ELSE << 7 - (8 - rank), 7 - file >>
            IN  /\ CellsWithRect(probe.rects[k]) = {cell}
                /\ probe.positions[cell[1] + 1][cell[2] + 1] = CanonicalAt(k)

\* black on the bottom: e2 is in the second row from the top, fourth cell
\* from the right, where the layout rotated from 1.e4 has no pawn any more
C29_Witness ==
    /\ CoordDone
    /\ probe.positions = Rot180(E4Layout)
    /\ ~probe.white_on_bottom
    /\ probe.uci_move = << "e", "2", "d", "7" >>
    /\ probe.rects[1] = SquareRect(probe.board, 1, 3)
    /\ CanonicalAt(1) = None
    /\ CanonicalAt(2) = "p"

====
